---- MODULE Spec2Model ----
(***************************************************************************)
(* A model of <lmdb++.h>: the lmdb::error exception hierarchy with its     *)
(* raise() dispatch and what() formatting, and the eight env_* procedures  *)
(* of the procedural interface that forward to the LMDB engine.            *)
(*                                                                         *)
(* Two specifications share the module:                                    *)
(*   Spec     one caller driving the env_* procedures against the engine;  *)
(*   SpecErr  two threads raising, catching and formatting errors.         *)
(***************************************************************************)
EXTENDS Integers, Sequences, FiniteSets, TLC

VARIABLES
  \* ---- procedural interface (Spec) ----
  slot,        \* the caller's MDB_env* variable whose address goes to env_create
  envs,        \* engine: the state of every environment handle
  closeStatus, \* engine: what the last mdb_env_close met internally (never returned)
  crashed,     \* the process hit undefined behaviour and stopped
  callLog,     \* history: the procedure calls made, in order
  engineLog,   \* history: the engine primitive calls made, in order
  last,        \* the outcome of the last procedure call
  \* ---- error model (SpecErr) ----
  pc,          \* each thread's position
  inflight,    \* each thread's exception in flight
  raiseArgs,   \* history: the (origin, rc) each thread passed to raise()
  caught,      \* each thread's caught error objects, in order of catching
  cur,         \* the error object the thread's running what() is called on
  pos,         \* the running snprintf's write position
  held,        \* the pointers what() returned to the thread, per error object
  lastWhat,    \* the error object of the thread's last completed what()
  buffer       \* the contents of every formatting buffer (as C strings)

procVars == <<slot, envs, closeStatus, crashed, callLog, engineLog, last>>
errVars  == <<pc, inflight, raiseArgs, caught, cur, pos, held, lastWhat, buffer>>
vars     == <<slot, envs, closeStatus, crashed, callLog, engineLog, last,
              pc, inflight, raiseArgs, caught, cur, pos, held, lastWhat, buffer>>

----------------------------------------------------------------------------
(* Bounds *)

MaxErrs == 3        \* error objects raised in a run, over all threads
MaxCalls == 4       \* procedure calls the caller makes
MaxHandles == 2     \* handles the engine can hand out
LongLen == 1030     \* length of the long origin string

----------------------------------------------------------------------------
(* Status codes (lmdb.h, as used by the wrapper) *)

MDB_SUCCESS == 0
MDB_KEYEXIST == -30799
MDB_NOTFOUND == -30798

\* Nonzero status codes handed to raise() by the threads: the two
\* distinguished ones and EINVAL.
ErrCodes == {MDB_KEYEXIST, MDB_NOTFOUND, 22}

\* What an engine primitive may return.
EngineRcs == {MDB_SUCCESS, MDB_NOTFOUND, 22}

\* mdb_strerror(): the engine's text for a status code.
mdb_strerror(rc) ==
  CASE rc = MDB_SUCCESS  -> "Successful return: 0"
    [] rc = MDB_KEYEXIST -> "MDB_KEYEXIST: Key/data pair already exists"
    [] rc = MDB_NOTFOUND -> "MDB_NOTFOUND: No matching key/data pair found"
    [] rc = -30797       -> "MDB_PAGE_NOTFOUND: Requested page not found"
    [] rc = 2            -> "No such file or directory"
    [] rc = 12           -> "Cannot allocate memory"
    [] rc = 22           -> "Invalid argument"
    [] OTHER             -> "Unknown error"

----------------------------------------------------------------------------
(* Strings *)

RECURSIVE Repeat(_, _)
Repeat(s, n) ==
  IF n = 0 THEN ""
  ELSE IF n % 2 = 0 THEN LET h == Repeat(s, n \div 2) IN h \o h
  ELSE s \o Repeat(s, n - 1)

LongOrigin == Repeat("x", LongLen)

Min(a, b) == IF a <= b THEN a ELSE b

\* The first n characters of s (all of s when it is shorter).
Take(s, n) == IF n <= 0 THEN "" ELSE IF Len(s) <= n THEN s ELSE SubSeq(s, 1, n)

----------------------------------------------------------------------------
(* lmdb::error, key_exist_error, not_found_error *)

NoError == [type |-> "none"]

\* The classes each class is an instance of (itself and its bases).
Bases(type) ==
  CASE type = "error"           -> {"error", "runtime_error"}
    [] type = "key_exist_error" -> {"key_exist_error", "error", "runtime_error"}
    [] type = "not_found_error" -> {"not_found_error", "error", "runtime_error"}
    [] OTHER                    -> {}

\* A handler for class `handler` catches exception e.
Catches(handler, e) == handler \in Bases(e.type)

\* The constructor: runtime_error keeps a copy of origin as its message.
error_wrong_code(type, origin_, rc) ==
  [type |-> type, what_arg |-> origin_, code_ |-> IF rc < 0 THEN -rc ELSE rc]

error(type, origin_, rc) ==
  [type |-> type, what_arg |-> origin_, code_ |-> rc]

code(e) == e.code_

origin(e) == e.what_arg

\* raise(): the control outcome and the exception thrown.
raise_no_not_found(origin_, rc) ==
  CASE rc = MDB_KEYEXIST -> [ctl |-> "thrown", exc |-> error("key_exist_error", origin_, rc)]
    [] OTHER             -> [ctl |-> "thrown", exc |-> error("error", origin_, rc)]

raise(origin_, rc) ==
  CASE rc = MDB_KEYEXIST -> [ctl |-> "thrown", exc |-> error("key_exist_error", origin_, rc)]
    [] rc = MDB_NOTFOUND -> [ctl |-> "thrown", exc |-> error("not_found_error", origin_, rc)]
    [] OTHER             -> [ctl |-> "thrown", exc |-> error("error", origin_, rc)]

----------------------------------------------------------------------------
(* lmdb::error::what() *)

Threads == {"t1", "t2"}

\* The (origin, rc) pairs the threads hand to raise(): one of the wrapper's
\* literals with a code of each kind, and a caller-chosen origin longer
\* than the formatting buffer.
RaiseInputs ==
  {<<"mdb_env_open", rc>> : rc \in ErrCodes} \cup {<<LongOrigin, 22>>}

HandlerTypes == {"error", "key_exist_error", "not_found_error"}

\* sizeof(buffer)
BufferSize == 1024

NoPtr == <<"null", "", 0>>

\* Every buffer a what() could format into.
BufIds ==
  {<<"tls", t, 0>> : t \in Threads} \cup {<<"static", "", 0>>}
    \cup {<<"inst", t, i>> : t \in Threads, i \in 1..(MaxErrs + 1)}

\* `static thread_local char buffer[1024]`: one buffer per executing
\* thread, whichever error object what() is called on.
BufferOf_static(t, i) == <<"static", "", 0>>

BufferOf_per_instance(t, i) == <<"inst", t, i>>

BufferOf(t, i) == <<"tls", t, 0>>

\* What the buffer reads as (up to its NUL) once snprintf has written
\* `piece` at offset `at`: snprintf stores at most sizeof(buffer) - 1
\* characters in all.
Stored(piece, at) == Take(piece, (BufferSize - 1) - at)

\* The buffer's first `at` characters (stale bytes read as "?").
Kept(buf, at) ==
  IF Len(buf) >= at THEN Take(buf, at) ELSE buf \o Repeat("?", at - Len(buf))

\* The pieces of the format "%s: %s".
Separator_none == ""

Separator == ": "

\* The error objects raised so far.
RECURSIVE SumLen(_)
SumLen(T) ==
  IF T = {} THEN 0
  ELSE LET t == CHOOSE x \in T : TRUE IN Len(raiseArgs[t]) + SumLen(T \ {t})

NRaised == SumLen(Threads)

\* error::raise(origin, rc) called by thread t.
Raise(t, o, rc) ==
  /\ pc[t] = "idle"
  /\ NRaised < MaxErrs
  /\ LET r == raise(o, rc)
     IN  /\ pc' = [pc EXCEPT ![t] = r.ctl]
         /\ inflight' = [inflight EXCEPT ![t] = r.exc]
  /\ raiseArgs' = [raiseArgs EXCEPT ![t] = Append(@, [origin |-> o, rc |-> rc])]
  /\ UNCHANGED <<caught, cur, pos, held, lastWhat, buffer>>
  /\ UNCHANGED procVars

\* catch (const handler& e) around the raising call.
Catch(t, handler) ==
  /\ pc[t] = "thrown"
  /\ Catches(handler, inflight[t])
  /\ caught' = [caught EXCEPT ![t] = Append(@, inflight[t])]
  /\ inflight' = [inflight EXCEPT ![t] = NoError]
  /\ pc' = [pc EXCEPT ![t] = "idle"]
  /\ UNCHANGED <<raiseArgs, cur, pos, held, lastWhat, buffer>>
  /\ UNCHANGED procVars

\* what() on the i-th caught error: snprintf starts and writes origin().
what_origin(t, i) ==
  /\ pc[t] = "idle"
  /\ i \in 1..Len(caught[t])
  /\ cur' = [cur EXCEPT ![t] = i]
  /\ LET b == BufferOf(t, i)
         w == Stored(origin(caught[t][i]), 0)
     IN  /\ buffer' = [buffer EXCEPT ![b] = w]
         /\ pos' = [pos EXCEPT ![t] = Len(w)]
  /\ pc' = [pc EXCEPT ![t] = "fmt_sep"]
  /\ UNCHANGED <<inflight, raiseArgs, caught, held, lastWhat>>
  /\ UNCHANGED procVars

\* snprintf writes the separator.
what_sep(t) ==
  /\ pc[t] = "fmt_sep"
  /\ LET b == BufferOf(t, cur[t])
         w == Stored(Separator, pos[t])
     IN  /\ buffer' = [buffer EXCEPT ![b] = Kept(buffer[b], pos[t]) \o w]
         /\ pos' = [pos EXCEPT ![t] = pos[t] + Len(w)]
  /\ pc' = [pc EXCEPT ![t] = "fmt_text"]
  /\ UNCHANGED <<inflight, raiseArgs, caught, cur, held, lastWhat>>
  /\ UNCHANGED procVars

\* snprintf writes mdb_strerror(code()) and what() returns the buffer.
what_text(t) ==
  /\ pc[t] = "fmt_text"
  /\ LET b == BufferOf(t, cur[t])
         w == Stored(mdb_strerror(code(caught[t][cur[t]])), pos[t])
     IN  buffer' = [buffer EXCEPT ![b] = Kept(buffer[b], pos[t]) \o w]
  /\ pos' = [pos EXCEPT ![t] = 0]
  /\ cur' = [cur EXCEPT ![t] = 0]
  /\ held' = [held EXCEPT ![t][cur[t]] = BufferOf(t, cur[t])]
  /\ lastWhat' = [lastWhat EXCEPT ![t] = cur[t]]
  /\ pc' = [pc EXCEPT ![t] = "idle"]
  /\ UNCHANGED <<inflight, raiseArgs, caught>>
  /\ UNCHANGED procVars

----------------------------------------------------------------------------
(* The LMDB engine, as far as the wrapper sees it *)

\* A handle the engine accepts: created and not yet closed.
Live(h) == h \in 1..MaxHandles /\ envs[h] \in {"created", "open", "openfailed"}

HandleState(h) == IF h \in 1..MaxHandles THEN envs[h] ELSE "null"

\* A primitive called on a closed handle is undefined behaviour: the
\* process may stop, or the call may return anything.
Undefined == {[rc |-> r, envs |-> envs, crash |-> c] : r \in EngineRcs, c \in BOOLEAN}

\* mdb_env_create(&slot): on success a fresh handle is stored in the slot;
\* on failure nothing is stored.
mdb_env_create ==
  {[rc |-> r, slot |-> slot, envs |-> envs, crash |-> FALSE] :
     r \in EngineRcs \ {MDB_SUCCESS}}
  \cup
  {[rc |-> MDB_SUCCESS, slot |-> h, envs |-> [envs EXCEPT ![h] = "created"],
    crash |-> FALSE] :
     h \in {x \in 1..MaxHandles :
              envs[x] = "free" /\ \A y \in 1..(x - 1) : envs[y] # "free"}}

\* mdb_env_open(env, path, flags, mode): succeeds only on a handle not
\* opened before; a failed open leaves a handle that can only be closed.
mdb_env_open(env, path, flags, mode) ==
  IF ~Live(env) THEN Undefined
  ELSE
    {[rc |-> r, crash |-> FALSE,
      envs |-> [envs EXCEPT ![env] = IF @ = "created" THEN "openfailed" ELSE @]] :
       r \in EngineRcs \ {MDB_SUCCESS}}
    \cup
    (IF envs[env] = "created"
     THEN {[rc |-> MDB_SUCCESS, crash |-> FALSE,
            envs |-> [envs EXCEPT ![env] = "open"]]}
     ELSE {})

\* mdb_env_set_flags, mdb_env_set_mapsize, mdb_env_set_maxreaders,
\* mdb_env_set_maxdbs, mdb_env_sync: any status; the handle stays as it is.
mdb_env_configure(env) ==
  IF ~Live(env) THEN Undefined
  ELSE {[rc |-> r, envs |-> envs, crash |-> FALSE] : r \in EngineRcs}

\* mdb_env_close(env) returns nothing: the handle is gone, and whatever
\* the engine met while releasing it stays inside the engine.
mdb_env_close(env) ==
  IF ~Live(env)
  THEN {[status |-> closeStatus, envs |-> envs, crash |-> c] : c \in BOOLEAN}
  ELSE {[status |-> st, envs |-> [envs EXCEPT ![env] = "closed"], crash |-> FALSE] :
          st \in EngineRcs}

----------------------------------------------------------------------------
(* Procedural interface *)

\* Arguments the caller passes.
Paths == {"/db", "/missing"}
FlagSets == {0, 1}
Modes == {420}
Sizes == {1048576}
Counts == {8}

\* A call that returns normally.
Returns == [ctl |-> "returned", exc |-> NoError]

\* A call during which the process stopped.
Stops == [ctl |-> "crashed", exc |-> NoError]

\* What the caller sees of a call: ret is <<rc>>, or <<>> for a void
\* primitive; before is the handle's state when the call was made.
Seen(proc, env, ret, out) ==
  [proc |-> proc, env |-> env, before |-> HandleState(env), slotBefore |-> slot,
   ret |-> ret, ctl |-> out.ctl, exc |-> out.exc]

CanCall == ~crashed /\ Len(callLog) < MaxCalls

env_create_clears_slot ==
  /\ CanCall
  /\ \E r \in mdb_env_create :
       /\ slot' = IF r.rc # MDB_SUCCESS THEN 0 ELSE r.slot
       /\ envs' = r.envs
       /\ crashed' = r.crash
       /\ engineLog' = Append(engineLog, [name |-> "mdb_env_create", args |-> <<"&env">>])
       /\ last' = Seen("env_create", 0, <<r.rc>>,
                       IF r.rc # MDB_SUCCESS THEN raise("mdb_env_create", r.rc)
                       ELSE Returns)
  /\ callLog' = Append(callLog, [name |-> "env_create", args |-> <<"&env">>])
  /\ UNCHANGED closeStatus
  /\ UNCHANGED errVars

env_create ==
  /\ CanCall
  /\ \E r \in mdb_env_create :
       /\ slot' = r.slot
       /\ envs' = r.envs
       /\ crashed' = r.crash
       /\ engineLog' = Append(engineLog, [name |-> "mdb_env_create", args |-> <<"&env">>])
       /\ last' = Seen("env_create", 0, <<r.rc>>,
                       IF r.rc # MDB_SUCCESS THEN raise("mdb_env_create", r.rc)
                       ELSE Returns)
  /\ callLog' = Append(callLog, [name |-> "env_create", args |-> <<"&env">>])
  /\ UNCHANGED closeStatus
  /\ UNCHANGED errVars

env_open_cleanup(env, path, flags, mode) ==
  /\ CanCall
  /\ \E r \in mdb_env_open(env, path, flags, mode) :
       /\ envs' = IF r.rc # MDB_SUCCESS /\ ~r.crash
                  THEN [r.envs EXCEPT ![env] = "closed"] ELSE r.envs
       /\ crashed' = r.crash
       /\ engineLog' =
            IF r.rc # MDB_SUCCESS /\ ~r.crash
            THEN engineLog \o <<[name |-> "mdb_env_open", args |-> <<env, path, flags, mode>>],
                                [name |-> "mdb_env_close", args |-> <<env>>]>>
            ELSE Append(engineLog, [name |-> "mdb_env_open", args |-> <<env, path, flags, mode>>])
       /\ last' = Seen("env_open", env, <<r.rc>>,
                       IF r.crash THEN Stops
                       ELSE IF r.rc # MDB_SUCCESS THEN raise("mdb_env_open", r.rc)
                       ELSE Returns)
  /\ callLog' = Append(callLog, [name |-> "env_open", args |-> <<env, path, flags, mode>>])
  /\ UNCHANGED <<slot, closeStatus>>
  /\ UNCHANGED errVars

env_open(env, path, flags, mode) ==
  /\ CanCall
  /\ \E r \in mdb_env_open(env, path, flags, mode) :
       /\ envs' = r.envs
       /\ crashed' = r.crash
       /\ engineLog' = Append(engineLog, [name |-> "mdb_env_open", args |-> <<env, path, flags, mode>>])
       /\ last' = Seen("env_open", env, <<r.rc>>,
                       IF r.crash THEN Stops
                       ELSE IF r.rc # MDB_SUCCESS THEN raise("mdb_env_open", r.rc)
                       ELSE Returns)
  /\ callLog' = Append(callLog, [name |-> "env_open", args |-> <<env, path, flags, mode>>])
  /\ UNCHANGED <<slot, closeStatus>>
  /\ UNCHANGED errVars

env_close_raising(env) ==
  /\ CanCall
  /\ \E r \in mdb_env_close(env) :
       /\ envs' = r.envs
       /\ closeStatus' = r.status
       /\ crashed' = r.crash
       /\ last' = Seen("env_close", env, <<>>,
                       IF r.crash THEN Stops
                       ELSE IF r.status # MDB_SUCCESS THEN raise("mdb_env_close", r.status)
                       ELSE Returns)
  /\ engineLog' = Append(engineLog, [name |-> "mdb_env_close", args |-> <<env>>])
  /\ callLog' = Append(callLog, [name |-> "env_close", args |-> <<env>>])
  /\ UNCHANGED slot
  /\ UNCHANGED errVars

env_close(env) ==
  /\ CanCall
  /\ \E r \in mdb_env_close(env) :
       /\ envs' = r.envs
       /\ closeStatus' = r.status
       /\ crashed' = r.crash
       /\ last' = Seen("env_close", env, <<>>, IF r.crash THEN Stops ELSE Returns)
  /\ engineLog' = Append(engineLog, [name |-> "mdb_env_close", args |-> <<env>>])
  /\ callLog' = Append(callLog, [name |-> "env_close", args |-> <<env>>])
  /\ UNCHANGED slot
  /\ UNCHANGED errVars

env_set_flags(env, flags, onoff) ==
  /\ CanCall
  /\ \E r \in mdb_env_configure(env) :
       /\ envs' = r.envs
       /\ crashed' = r.crash
       /\ last' = Seen("env_set_flags", env, <<r.rc>>,
                       IF r.crash THEN Stops
                       ELSE IF r.rc # MDB_SUCCESS THEN raise("mdb_env_set_flags", r.rc)
                       ELSE Returns)
  /\ engineLog' = Append(engineLog, [name |-> "mdb_env_set_flags",
                                     args |-> <<env, flags, IF onoff THEN 1 ELSE 0>>])
  /\ callLog' = Append(callLog, [name |-> "env_set_flags", args |-> <<env, flags, onoff>>])
  /\ UNCHANGED <<slot, closeStatus>>
  /\ UNCHANGED errVars

env_set_map_size_bad_origin(env, size) ==
  /\ CanCall
  /\ \E r \in mdb_env_configure(env) :
       /\ envs' = r.envs
       /\ crashed' = r.crash
       /\ last' = Seen("env_set_map_size", env, <<r.rc>>,
                       IF r.crash THEN Stops
                       ELSE IF r.rc # MDB_SUCCESS THEN raise("mdb_env_set_map_size", r.rc)
                       ELSE Returns)
  /\ engineLog' = Append(engineLog, [name |-> "mdb_env_set_mapsize", args |-> <<env, size>>])
  /\ callLog' = Append(callLog, [name |-> "env_set_map_size", args |-> <<env, size>>])
  /\ UNCHANGED <<slot, closeStatus>>
  /\ UNCHANGED errVars

env_set_map_size(env, size) ==
  /\ CanCall
  /\ \E r \in mdb_env_configure(env) :
       /\ envs' = r.envs
       /\ crashed' = r.crash
       /\ last' = Seen("env_set_map_size", env, <<r.rc>>,
                       IF r.crash THEN Stops
                       ELSE IF r.rc # MDB_SUCCESS THEN raise("mdb_env_set_mapsize", r.rc)
                       ELSE Returns)
  /\ engineLog' = Append(engineLog, [name |-> "mdb_env_set_mapsize", args |-> <<env, size>>])
  /\ callLog' = Append(callLog, [name |-> "env_set_map_size", args |-> <<env, size>>])
  /\ UNCHANGED <<slot, closeStatus>>
  /\ UNCHANGED errVars

env_set_max_readers(env, count) ==
  /\ CanCall
  /\ \E r \in mdb_env_configure(env) :
       /\ envs' = r.envs
       /\ crashed' = r.crash
       /\ last' = Seen("env_set_max_readers", env, <<r.rc>>,
                       IF r.crash THEN Stops
                       ELSE IF r.rc # MDB_SUCCESS THEN raise("mdb_env_set_maxreaders", r.rc)
                       ELSE Returns)
  /\ engineLog' = Append(engineLog, [name |-> "mdb_env_set_maxreaders", args |-> <<env, count>>])
  /\ callLog' = Append(callLog, [name |-> "env_set_max_readers", args |-> <<env, count>>])
  /\ UNCHANGED <<slot, closeStatus>>
  /\ UNCHANGED errVars

env_set_max_dbs_unchecked(env, count) ==
  /\ CanCall
  /\ \E r \in mdb_env_configure(env) :
       /\ envs' = r.envs
       /\ crashed' = r.crash
       /\ last' = Seen("env_set_max_dbs", env, <<r.rc>>,
                       IF r.crash THEN Stops ELSE Returns)
  /\ engineLog' = Append(engineLog, [name |-> "mdb_env_set_maxdbs", args |-> <<env, count>>])
  /\ callLog' = Append(callLog, [name |-> "env_set_max_dbs", args |-> <<env, count>>])
  /\ UNCHANGED <<slot, closeStatus>>
  /\ UNCHANGED errVars

env_set_max_dbs(env, count) ==
  /\ CanCall
  /\ \E r \in mdb_env_configure(env) :
       /\ envs' = r.envs
       /\ crashed' = r.crash
       /\ last' = Seen("env_set_max_dbs", env, <<r.rc>>,
                       IF r.crash THEN Stops
                       ELSE IF r.rc # MDB_SUCCESS THEN raise("mdb_env_set_maxdbs", r.rc)
                       ELSE Returns)
  /\ engineLog' = Append(engineLog, [name |-> "mdb_env_set_maxdbs", args |-> <<env, count>>])
  /\ callLog' = Append(callLog, [name |-> "env_set_max_dbs", args |-> <<env, count>>])
  /\ UNCHANGED <<slot, closeStatus>>
  /\ UNCHANGED errVars

env_sync(env, force) ==
  /\ CanCall
  /\ \E r \in mdb_env_configure(env) :
       /\ envs' = r.envs
       /\ crashed' = r.crash
       /\ last' = Seen("env_sync", env, <<r.rc>>,
                       IF r.crash THEN Stops
                       ELSE IF r.rc # MDB_SUCCESS THEN raise("mdb_env_sync", r.rc)
                       ELSE Returns)
  /\ engineLog' = Append(engineLog, [name |-> "mdb_env_sync",
                                     args |-> <<env, IF force THEN 1 ELSE 0>>])
  /\ callLog' = Append(callLog, [name |-> "env_sync", args |-> <<env, force>>])
  /\ UNCHANGED <<slot, closeStatus>>
  /\ UNCHANGED errVars

----------------------------------------------------------------------------
(* Initial state and specifications *)

InitProc ==
  /\ slot = 0
  /\ envs = [h \in 1..MaxHandles |-> "free"]
  /\ closeStatus = MDB_SUCCESS
  /\ crashed = FALSE
  /\ callLog = <<>>
  /\ engineLog = <<>>
  /\ last = [proc |-> "none", env |-> 0, before |-> "null", slotBefore |-> 0,
             ret |-> <<>>, ctl |-> "returned", exc |-> NoError]

InitErr ==
  /\ pc = [t \in Threads |-> "idle"]
  /\ inflight = [t \in Threads |-> NoError]
  /\ raiseArgs = [t \in Threads |-> <<>>]
  /\ caught = [t \in Threads |-> <<>>]
  /\ cur = [t \in Threads |-> 0]
  /\ pos = [t \in Threads |-> 0]
  /\ held = [t \in Threads |-> [i \in 1..MaxErrs |-> NoPtr]]
  /\ lastWhat = [t \in Threads |-> 0]
  /\ buffer = [b \in BufIds |-> ""]

Init == InitProc /\ InitErr

NextErr ==
  \/ \E t \in Threads, in \in RaiseInputs : Raise(t, in[1], in[2])
  \/ \E t \in Threads, h \in HandlerTypes : Catch(t, h)
  \/ \E t \in Threads, i \in 1..MaxErrs : what_origin(t, i)
  \/ \E t \in Threads : what_sep(t)
  \/ \E t \in Threads : what_text(t)

SpecErr == Init /\ [][NextErr]_vars

\* The caller passes the handle its slot holds.
Next ==
  \/ env_create
  \/ slot # 0 /\ \E path \in Paths, flags \in FlagSets, mode \in Modes :
                   env_open(slot, path, flags, mode)
  \/ slot # 0 /\ env_close(slot)
  \/ slot # 0 /\ \E flags \in FlagSets, onoff \in BOOLEAN : env_set_flags(slot, flags, onoff)
  \/ slot # 0 /\ \E size \in Sizes : env_set_map_size(slot, size)
  \/ slot # 0 /\ \E count \in Counts : env_set_max_readers(slot, count)
  \/ slot # 0 /\ \E count \in Counts : env_set_max_dbs(slot, count)
  \/ slot # 0 /\ \E force \in BOOLEAN : env_sync(slot, force)

Spec == Init /\ [][Next]_vars

----------------------------------------------------------------------------
(* Claims about the error model, checked under SpecErr *)

\* The (origin, rc) of thread t's latest raise() call.
LastArgs(t) == raiseArgs[t][Len(raiseArgs[t])]

ExpectedType(rc) ==
  IF rc = MDB_KEYEXIST THEN "key_exist_error"
  ELSE IF rc = MDB_NOTFOUND THEN "not_found_error"
  ELSE "error"

\* origin + ": " + mdb_strerror(code), in full.
FullMessage(e) == origin(e) \o ": " \o mdb_strerror(code(e))

\* C1: raise(origin, rc) never returns normally and throws exactly one
\* error, whose class is chosen by rc alone: key_exist_error for
\* MDB_KEYEXIST, not_found_error for MDB_NOTFOUND, error for every other
\* rc; a handler for the base class error catches all three, and the
\* handlers for the two derived classes catch only their own.
C1_RaiseSelectsVariant ==
  \A t \in Threads :
    /\ pc[t] \in {"idle", "thrown", "fmt_sep", "fmt_text"}
    /\ Len(raiseArgs[t]) = Len(caught[t]) + (IF pc[t] = "thrown" THEN 1 ELSE 0)
    /\ pc[t] = "thrown" =>
         /\ inflight[t] # NoError
         /\ inflight[t].type = ExpectedType(LastArgs(t).rc)
         /\ Catches("error", inflight[t])
         /\ Catches("key_exist_error", inflight[t]) <=> LastArgs(t).rc = MDB_KEYEXIST
         /\ Catches("not_found_error", inflight[t]) <=> LastArgs(t).rc = MDB_NOTFOUND
    /\ pc[t] # "thrown" => inflight[t] = NoError
    /\ \A i \in 1..Len(caught[t]) :
         caught[t][i].type = ExpectedType(raiseArgs[t][i].rc)

\* A thread has a not_found_error in flight after catching a
\* key_exist_error and a generic error.
C1_Witness ==
  \E t \in Threads :
    /\ pc[t] = "thrown"
    /\ inflight[t].type = "not_found_error"
    /\ \E i, j \in 1..Len(caught[t]) :
         caught[t][i].type = "key_exist_error" /\ caught[t][j].type = "error"

\* C2: every error raised by raise(origin, rc) has code() = rc and
\* origin() = origin, whatever its class, when it is thrown and for as
\* long as it is kept, what() calls on it included.
C2_AccessorsReturnArguments ==
  \A t \in Threads :
    /\ pc[t] = "thrown" =>
         /\ code(inflight[t]) = LastArgs(t).rc
         /\ origin(inflight[t]) = LastArgs(t).origin
    /\ \A i \in 1..Len(caught[t]) :
         /\ code(caught[t][i]) = raiseArgs[t][i].rc
         /\ origin(caught[t][i]) = raiseArgs[t][i].origin

\* A thread holds errors of all three classes and has called what() on
\* each of them.
C2_Witness ==
  \E t \in Threads :
    /\ pc[t] = "idle"
    /\ Len(caught[t]) = 3
    /\ {caught[t][i].type : i \in 1..3} = HandlerTypes
    /\ \A i \in 1..3 : held[t][i] # NoPtr
    /\ \A i \in 1..3 : code(caught[t][i]) = raiseArgs[t][i].rc

\* The message thread t reads through the pointer its last what() returned.
ReadBack(t) == buffer[held[t][lastWhat[t]]]

\* No thread has entered what() yet.
NoWhatYet == \A t \in Threads : lastWhat[t] = 0 /\ pc[t] \in {"idle", "thrown"}

\* C7 as stated: for every origin and code, what() is the whole of
\* origin + ": " + mdb_strerror(code).
C7_WhatIsFullMessage ==
  \A t \in Threads :
    (pc[t] = "idle" /\ lastWhat[t] # 0) =>
      ReadBack(t) = FullMessage(caught[t][lastWhat[t]])

\* C7, amended: what() is the first sizeof(buffer) - 1 characters of
\* origin + ": " + mdb_strerror(code), hence all of it when that is
\* shorter than the buffer; and nothing is formatted before what() is
\* called: raising and catching leave every buffer empty.
C7_WhatIsTruncatedMessage ==
  /\ \A t \in Threads :
       (pc[t] = "idle" /\ lastWhat[t] # 0) =>
         LET full == FullMessage(caught[t][lastWhat[t]])
         IN  /\ ReadBack(t) = Take(full, BufferSize - 1)
             /\ Len(full) < BufferSize => ReadBack(t) = full
  /\ NoWhatYet => \A b \in BufIds : buffer[b] = ""

\* A thread has formatted an error whose full message does not fit, and
\* reads the 1023 characters that do; another error of its own fits.
C7_Witness ==
  \E t \in Threads :
    /\ pc[t] = "idle" /\ lastWhat[t] # 0
    /\ origin(caught[t][lastWhat[t]]) = LongOrigin
    /\ Len(ReadBack(t)) = BufferSize - 1
    /\ ReadBack(t) # FullMessage(caught[t][lastWhat[t]])
    /\ \E i \in 1..Len(caught[t]) : Len(FullMessage(caught[t][i])) < BufferSize

\* C8: when two threads format their own error objects, in any
\* interleaving of the formatting steps, the pointers they get differ and
\* each thread reads the message of its own object, as one what() alone
\* writes it, while the other thread is formatting or has formatted.
C8_ThreadsDoNotInterfere ==
  \A t, u \in Threads :
    t # u =>
      /\ \A i, j \in 1..MaxErrs :
           (held[t][i] # NoPtr /\ held[u][j] # NoPtr) => held[t][i] # held[u][j]
      /\ ( /\ pc[t] = "idle" /\ lastWhat[t] # 0
           /\ (pc[u] \in {"fmt_sep", "fmt_text"} \/ lastWhat[u] # 0) )
         => ReadBack(t) = Take(FullMessage(caught[t][lastWhat[t]]), BufferSize - 1)

\* One thread reads its message while the other is half way through
\* formatting a different one.
C8_Witness ==
  \E t, u \in Threads :
    /\ t # u
    /\ pc[t] = "idle" /\ lastWhat[t] # 0
    /\ pc[u] = "fmt_text"
    /\ FullMessage(caught[u][cur[u]]) # FullMessage(caught[t][lastWhat[t]])
    /\ ReadBack(t) = FullMessage(caught[t][lastWhat[t]])

\* C9: all what() calls of a thread return the same buffer, so the pointer
\* obtained for an earlier error reads as the message of the error the
\* thread formatted last.
C9_OneBufferPerThread ==
  \A t \in Threads :
    \A i, j \in 1..MaxErrs :
      (held[t][i] # NoPtr /\ held[t][j] # NoPtr) =>
        /\ held[t][i] = held[t][j]
        /\ (pc[t] = "idle" /\ lastWhat[t] = j) =>
             buffer[held[t][i]] = Take(FullMessage(caught[t][j]), BufferSize - 1)

\* A thread formatted error A, then a different error B, and A's pointer
\* now reads B's message, not A's.
C9_Witness ==
  \E t \in Threads :
    \E i, j \in 1..MaxErrs :
      /\ i # j
      /\ held[t][i] # NoPtr /\ held[t][j] # NoPtr
      /\ pc[t] = "idle" /\ lastWhat[t] = j
      /\ FullMessage(caught[t][i]) # FullMessage(caught[t][j])
      /\ buffer[held[t][i]] = FullMessage(caught[t][j])
      /\ buffer[held[t][i]] # FullMessage(caught[t][i])

----------------------------------------------------------------------------
(* Claims about the procedural interface, checked under Spec *)

Fallible ==
  {"env_create", "env_open", "env_set_flags", "env_set_map_size",
   "env_set_max_readers", "env_set_max_dbs", "env_sync"}

\* The engine primitive each procedure wraps.
PrimitiveOf(proc) ==
  CASE proc = "env_create"          -> "mdb_env_create"
    [] proc = "env_open"            -> "mdb_env_open"
    [] proc = "env_close"           -> "mdb_env_close"
    [] proc = "env_set_flags"       -> "mdb_env_set_flags"
    [] proc = "env_set_map_size"    -> "mdb_env_set_mapsize"
    [] proc = "env_set_max_readers" -> "mdb_env_set_maxreaders"
    [] proc = "env_set_max_dbs"     -> "mdb_env_set_maxdbs"
    [] proc = "env_sync"            -> "mdb_env_sync"
    [] OTHER                        -> "none"

\* The last call completed: it returned or raised.
Completed == last.proc # "none" /\ last.ctl # "crashed"

\* C3: a fallible procedure raises if and only if its primitive returned a
\* status other than MDB_SUCCESS, and the error carries that status; on
\* MDB_SUCCESS it returns normally and no error exists; the primitive is
\* called once, not again after a failure.
C3_RaisesIffPrimitiveFails ==
  (Completed /\ last.proc \in Fallible) =>
    /\ Len(last.ret) = 1
    /\ Len(engineLog) = Len(callLog)
    /\ engineLog[Len(engineLog)].name = PrimitiveOf(last.proc)
    /\ last.ctl = "thrown" <=> last.ret[1] # MDB_SUCCESS
    /\ last.ctl = "thrown" => (last.exc # NoError /\ code(last.exc) = last.ret[1])
    /\ last.ctl = "returned" => last.exc = NoError

\* env_sync raised MDB_NOTFOUND, the status its primitive returned, after
\* an env_open that returned normally.
C3_Witness ==
  /\ last.proc = "env_sync" /\ last.ctl = "thrown"
  /\ last.ret = <<MDB_NOTFOUND>> /\ code(last.exc) = MDB_NOTFOUND
  /\ last.before = "open"

\* C4: env_close never raises: on a handle that was created, opened, or
\* failed to open it returns normally, whatever the engine met inside.
C4_CloseNeverRaises ==
  last.proc = "env_close" =>
    /\ last.ctl # "thrown"
    /\ last.exc = NoError
    /\ last.before \in {"created", "open", "openfailed"} => last.ctl = "returned"

\* env_close returned normally on a handle whose env_open had failed,
\* although the engine met a failure while closing it.
C4_Witness ==
  /\ last.proc = "env_close" /\ last.before = "openfailed"
  /\ last.ctl = "returned" /\ closeStatus # MDB_SUCCESS

\* The wrapped primitive of the last call failed: it returned a status
\* other than MDB_SUCCESS, or, for the void mdb_env_close, met one inside.
PrimitiveFailed ==
  IF last.proc = "env_close"
  THEN last.before \in {"created", "open", "openfailed"} /\ closeStatus # MDB_SUCCESS
  ELSE Len(last.ret) = 1 /\ last.ret[1] # MDB_SUCCESS

\* C5 as stated: for each of the eight procedures, env_close included, a
\* failure surfaces as an error whose origin() is the primitive's name.
C5_AllEightRaiseWithOrigin ==
  (Completed /\ PrimitiveFailed) =>
    (last.ctl = "thrown" /\ origin(last.exc) = PrimitiveOf(last.proc))

\* C5, amended: an error raised by one of the seven fallible procedures
\* has as origin() the name of the primitive that procedure wraps,
\* whatever the status and the arguments; env_close raises no error and
\* so has no origin.
C5_SevenRaiseWithOrigin ==
  /\ (Completed /\ last.proc \in Fallible /\ PrimitiveFailed) =>
       (last.ctl = "thrown" /\ origin(last.exc) = PrimitiveOf(last.proc))
  /\ last.ctl = "thrown" => last.proc \in Fallible
  /\ last.proc = "env_close" => last.exc = NoError

\* env_set_map_size raised with origin "mdb_env_set_mapsize".
C5_Witness ==
  /\ last.proc = "env_set_map_size" /\ last.ctl = "thrown"
  /\ origin(last.exc) = "mdb_env_set_mapsize"

\* C6: a failed env_create raises and leaves the caller's slot as it was;
\* a successful one leaves in it a new handle in the created, unopened
\* state, which the configuration calls, env_open and env_close accept.
C6_CreateSlot ==
  last.proc = "env_create" =>
    /\ last.ret # <<MDB_SUCCESS>> => (last.ctl = "thrown" /\ slot = last.slotBefore)
    /\ last.ret = <<MDB_SUCCESS>> =>
         /\ last.ctl = "returned"
         /\ slot # last.slotBefore
         /\ Live(slot) /\ envs[slot] = "created"

\* env_create failed while the slot already held a handle, and the slot
\* still holds it.
C6_Witness ==
  /\ last.proc = "env_create" /\ last.ctl = "thrown"
  /\ last.slotBefore # 0 /\ slot = last.slotBefore

\* The arguments the primitive gets for a procedure call.
ForwardedArgs(c) ==
  CASE c.name = "env_set_flags" ->
         <<c.args[1], c.args[2], IF c.args[3] THEN 1 ELSE 0>>
    [] c.name = "env_sync" -> <<c.args[1], IF c.args[2] THEN 1 ELSE 0>>
    [] OTHER -> c.args

\* C10: the engine sees exactly the procedure calls made: one primitive
\* call per procedure call, in order, on the same handle with the same
\* arguments, whether the call returned or raised; nothing is added after
\* a raise (a handle whose env_open failed stays unclosed) and a repeated
\* env_close is forwarded like the first.
C10_OnePrimitivePerCall ==
  /\ Len(engineLog) = Len(callLog)
  /\ \A i \in 1..Min(Len(engineLog), Len(callLog)) :
       /\ engineLog[i].name = PrimitiveOf(callLog[i].name)
       /\ engineLog[i].args = ForwardedArgs(callLog[i])
  /\ (last.proc = "env_open" /\ last.ctl = "thrown" /\ last.before = "created") =>
       envs[last.env] = "openfailed"

\* After env_create and a failed env_open the handle was closed twice,
\* and the engine got all four calls.
C10_Witness ==
  /\ Len(callLog) = 4
  /\ callLog[2].name = "env_open" /\ callLog[3].name = "env_close"
  /\ last.proc = "env_close" /\ last.before = "closed"
  /\ engineLog[4] = [name |-> "mdb_env_close", args |-> <<last.env>>]

====
